---- MODULE Spec2Model ----
(***************************************************************************)
(* Experiment.run() of src/experiments/base.py: the all-or-nothing cache   *)
(* probe, the dispatch of quantizer_list to a multiprocessing.Pool with    *)
(* one worker per device_configs entry, the per-worker evaluations and the *)
(* collection of the ordered result list for process_result.               *)
(*                                                                         *)
(* Evaluator (is_result_cached / cached_evaluate), Quantizer and config    *)
(* are imported by base.py from other modules; their behaviour is taken    *)
(* from sections 3, 4.2, 4.3 and 5 of the design specification.            *)
(***************************************************************************)
EXTENDS Integers, Sequences, FiniteSets, TLC

\* ---------------------------------------------------------------- bounds
\* len(device_configs): the number of configured compute devices.
NumDevices == 2
\* Longest quantizer_list an experiment supplies.
MaxLen == 3
\* Pools one orchestrator process creates at most (caps its process counter).
MaxPools == 2

\* ------------------------------------------------------------- data model
\* The key-quantizer and value-quantizer configurations of the sweeps.
KeyCfgs == {1, 2}
ValCfgs == {1}
\* A (key_quantizer, value_quantizer) pair, by the configurations of the two.
Pairs == KeyCfgs \X ValCfgs
\* torch dtypes an experiment may be constructed with (bit widths).
Dtypes == {16, 32}
\* config.version, and the model_name / question_count of the experiments.
Version == "v1"
ModelName == "llama"
QuestionCount == "q3"

\* Process identities the orchestrator's process counter can hand out: every
\* dispatching run takes NumDevices fresh ones.
Procs == 1..(NumDevices * MaxPools)

\* The quantizer lists of length 0..MaxLen (duplicates allowed).
QLists == UNION {[1..n -> Pairs] : n \in 0..MaxLen}

\* The experiments: constructor parameters (model_name, dtype, question_count)
\* and the quantizer_list of the concrete subclass.
Experiments ==
    [model_name : {ModelName}, dtype : Dtypes,
     question_count : {QuestionCount}, qlist : QLists]

\* What the Evaluator constructor receives on lines 55 and 70.
EvaluatorArgs(device, e, q) ==
    [device |-> device, version |-> Version, model_name |-> e.model_name,
     questions |-> e.question_count, key |-> q[1], value |-> q[2]]

\* The cache key of an evaluator: (version, model name, question set, key
\* config, value config).  The device is not part of it.
Fingerprint(a) ==
    [version |-> a.version, model_name |-> a.model_name,
     questions |-> a.questions, key |-> a.key, value |-> a.value]

Fingerprints ==
    [version : {Version}, model_name : {ModelName},
     questions : {QuestionCount}, key : KeyCfgs, value : ValCfgs]

\* The EvaluationResult of running the model, loaded with torch_dtype = dtype
\* (line 37) and quantizers rebound to dtype (lines 68-69), over the questions.
Evaluate(fp, dtype) == [fp |-> fp, dtype |-> dtype]

Results == {Evaluate(fp, dt) : fp \in Fingerprints, dt \in Dtypes}

\* A cache record: absent, being written, or one complete result.
NoResult == [fp |-> [version |-> "", model_name |-> "", questions |-> "",
                      key |-> 0, value |-> 0], dtype |-> 0]
Absent == [st |-> "absent", val |-> NoResult]
Partial == [st |-> "partial", val |-> NoResult]
Stored(r) == [st |-> "ok", val |-> r]

\* The device "cpu" of the probe, and the device of device_configs[worker_id]
\* (entries are numbered from 0 as worker_id is).
CpuDevice == -1
DeviceOf(worker_id) == worker_id

\* The quantizer objects: one per configuration and role, so a configuration
\* that occurs in several pairs of a quantizer_list is one object in all of
\* them.
QObjs == ({"key"} \X KeyCfgs) \cup ({"value"} \X ValCfgs)
NoBinds == [o \in QObjs |-> 0]

\* The memoized members of Experiment: tokenizer and questions are
\* cached_property (kept in the instance's __dict__, lines 23 and 40), model
\* is functools.cache (kept with the function, line 29).
Members == {"tokenizer", "questions", "model"}
NoLoads == [m \in Members |-> 0]

\* ------------------------------------------------------------------ state
VARIABLES
    cacheFile,    \* the shared result cache file: fingerprint -> record
    lock,         \* holder of the cache file's lock (0: free)
    procCounter,  \* next identity of the orchestrator's process counter
    runPc,        \* "idle", "collect" (inside starmap), "done", "failed"
    exp,          \* the experiment of the current (or last) run()
    path,         \* "none", "cached" or "dispatch": branch taken on line 80
    probeMiss,    \* index of the pair whose probe missed (0: every pair hit)
    pool,         \* identities of the worker processes of the live Pool
    taskq,        \* chunk numbers not yet taken by a worker
    wk,           \* per process of the pool: its position and local state
    mapValue,     \* the result list starmap is assembling
    numberLeft,   \* chunks starmap still waits for
    success,      \* FALSE once a chunk has raised
    evalOut,      \* per index, what _run_single_evaluation returned for it
    arrival,      \* chunk numbers in the order their results reached starmap
    delivered,    \* the list handed to process_result
    prCalls,      \* process_result calls of the current run
    modelRuns,    \* per fingerprint, runs of the model over the question set
                  \* since the current run() began (0, 1, or 2 for two and more)
    partialRead,  \* TRUE once a reader got a record that was being written
    repeatOf,     \* "dispatch" when the current run repeats a completed run of
                  \* the same experiment that went to the pool ("none" otherwise)
    selfDict,     \* cached_property entries in the __dict__ of the
                  \* orchestrator's experiment object
    propLoads,    \* per member, how often the orchestrator process built it
                  \* for its experiment object (0, 1, or 2 for two and more)
    taskSelf,     \* the __dict__ entries of the experiment pickled with the
                  \* tasks of the current starmap
    orchBinds,    \* per quantizer object of the orchestrator, its
                  \* set_dtype_and_device calls
    chunkSz       \* chunk_size of line 82 (-1: not computed by this run)

vars == <<cacheFile, lock, procCounter, runPc, exp, path, probeMiss,
          pool, taskq, wk, mapValue, numberLeft, success, evalOut,
          arrival, delivered, prCalls, modelRuns, partialRead, repeatOf,
          selfDict, propLoads, taskSelf, orchBinds, chunkSz>>

orchVars == <<selfDict, propLoads, taskSelf, orchBinds, chunkSz>>

\* A pool process: its position, the list of its chunk so far, the result it
\* is storing, the keys of its model memo, the handles it built, the devices
\* it used, the set_dtype_and_device calls on the quantizer objects of its
\* chunk, and the members it loaded itself.
NoWorker ==
    [pc |-> "none", chunk |-> 0, pos |-> 0, local |-> <<>>, res |-> NoResult,
     selves |-> {}, loads |-> 0, devs |-> {}, binds |-> NoBinds, loaded |-> {}]

\* ------------------------------------------------- Evaluator (cache side)
\* Evaluator.is_result_cached(cache_file): the record stored under the
\* evaluator's fingerprint.
is_result_cached(a, cache) == cache[Fingerprint(a)]

\* -------------------------------------------------------- _is_all_cached
\* Lines 52-60: probe the pairs in order; the first miss returns None and
\* drops what was collected, otherwise the whole list is returned.
\* A probe that hands back the hits collected before the first miss.
RECURSIVE ProbeFromPartial(_, _, _, _)
ProbeFromPartial(e, cache, i, results) ==
    IF i > Len(e.qlist)
    THEN [none |-> FALSE, results |-> results, miss |-> 0]
    ELSE LET result == is_result_cached(EvaluatorArgs(CpuDevice, e, e.qlist[i]), cache)
         IN  IF result.st # "ok"
             THEN [none |-> FALSE, results |-> results, miss |-> i]
             ELSE ProbeFromPartial(e, cache, i + 1, Append(results, result.val))

RECURSIVE ProbeFrom(_, _, _, _)
ProbeFrom(e, cache, i, results) ==
    IF i > Len(e.qlist)
    THEN [none |-> FALSE, results |-> results, miss |-> 0]
    ELSE LET result == is_result_cached(EvaluatorArgs(CpuDevice, e, e.qlist[i]), cache)
         IN  IF result.st # "ok"
             THEN [none |-> TRUE, results |-> <<>>, miss |-> i]
             ELSE ProbeFrom(e, cache, i + 1, Append(results, result.val))

is_all_cached(e, cache) == ProbeFrom(e, cache, 1, <<>>)

\* ------------------------------------------- memoized members, quantizers
\* Lines 23-27: the tokenizer of an experiment object (st.dict is its
\* __dict__, st.loads counts what the process built): built on the first
\* access and kept in the instance.
tokenizer(st) ==
    IF "tokenizer" \in st.dict
    THEN st
    ELSE [st EXCEPT !.dict = @ \cup {"tokenizer"},
                    !.loads["tokenizer"] = IF @ < 2 THEN @ + 1 ELSE @]

\* Lines 40-42: the questions, loaded on the first access with the tokenizer
\* and kept in the instance.
questions(st) ==
    IF "questions" \in st.dict
    THEN st
    ELSE [tokenizer(st) EXCEPT !.dict = @ \cup {"questions"},
                               !.loads["questions"] = IF @ < 2 THEN @ + 1 ELSE @]

\* An access to a member by its name; a call of model (lines 29-38) builds a
\* handle in the calling process and leaves the instance's __dict__ alone.
Access(st, m) ==
    CASE m = "tokenizer" -> tokenizer(st)
      [] m = "questions" -> questions(st)
      [] OTHER -> [st EXCEPT !.loads[m] = IF @ < 2 THEN @ + 1 ELSE @]

RECURSIVE AccessAll(_, _)
AccessAll(st, ms) ==
    IF ms = <<>> THEN st ELSE AccessAll(Access(st, Head(ms)), Tail(ms))

\* Lines 68-69: set_dtype_and_device on the key and the value quantizer of
\* pair q (counted per object: 0, 1, or 2 for two and more).
set_dtype_and_device(binds, q) ==
    [binds EXCEPT ![<<"key", q[1]>>] = IF @ < 2 THEN @ + 1 ELSE @,
                  ![<<"value", q[2]>>] = IF @ < 2 THEN @ + 1 ELSE @]

\* A probe that binds the quantizers of each pair before it looks it up.
RECURSIVE ProbeEffectsRebinding(_, _, _)
ProbeEffectsRebinding(e, s, i) ==
    IF i > Len(e.qlist)
    THEN s
    ELSE LET s1 == [questions(s) EXCEPT
                       !.binds = set_dtype_and_device(@, e.qlist[i])]
             result == is_result_cached(EvaluatorArgs(CpuDevice, e, e.qlist[i]), s1.cache)
         IN  IF result.st # "ok" THEN s1 ELSE ProbeEffectsRebinding(e, s1, i + 1)

\* Lines 52-60, what the probe does to the state it runs in (the object's
\* members, the cache file, the quantizers): each pair it reaches accesses
\* self.questions, constructs an evaluator and reads the cache.
RECURSIVE ProbeEffects(_, _, _)
ProbeEffects(e, s, i) ==
    IF i > Len(e.qlist)
    THEN s
    ELSE LET s1 == questions(s)
             result == is_result_cached(EvaluatorArgs(CpuDevice, e, e.qlist[i]), s1.cache)
         IN  IF result.st # "ok" THEN s1 ELSE ProbeEffects(e, s1, i + 1)

\* A test that also sends an empty list to the pool.
IsFalsy(results) == results.none \/ results.results = <<>>

\* Line 80: results is None.
IsNone(results) == results.none

\* A line 81 that also calls self.model.
RunTouchesModel == <<"questions", "tokenizer", "model">>

\* Line 81: _, _ = self.questions, self.tokenizer.
RunTouches == <<"questions", "tokenizer">>

\* A pickle of the experiment that leaves the cached members out.
TaskSelfBare(dict) == {}

\* Line 84: the bound method self._run_single_evaluation is pickled into
\* every task, and with it the __dict__ of the experiment.
TaskSelf(dict) == dict

\* ------------------------------------------------------- run(): dispatch
\* A chunk size that rounds the quotient down.
chunk_size_floor(n) == IF n < NumDevices THEN 1 ELSE n \div NumDevices

\* Line 82: chunk_size = int(math.ceil(len(quantizer_list) / len(device_configs))).
chunk_size(n) == (n + NumDevices - 1) \div NumDevices

\* Pool.starmap(..., chunksize): the number of tasks the list is cut into.
NumChunks(n, cs) ==
    IF n = 0 THEN 0 ELSE (n \div cs) + (IF n % cs # 0 THEN 1 ELSE 0)

\* The (1-based) indices of chunk number i.
ChunkItems(i, cs, n) == {k \in 1..n : i * cs < k /\ k <= (i + 1) * cs}

\* Line 83: Pool(len(device_configs)) starts that many processes; each takes
\* the next value of the parent's process counter as its identity.
PoolIdentities(counter) == counter..(counter + NumDevices - 1)

\* A collection that appends each chunk's list as it arrives.
SetChunkInArrivalOrder(value, i, cs, res) ==
    LET filled == Cardinality({k \in 1..Len(value) : value[k] # NoResult})
    IN  [k \in 1..Len(value) |->
            IF filled < k /\ k <= filled + Len(res) THEN res[k - filled] ELSE value[k]]

\* starmap stores a finished chunk at its own slice of the result list:
\* value[i*chunksize:(i+1)*chunksize] = result.
SetChunk(value, i, cs, res) ==
    [k \in 1..Len(value) |->
        IF i * cs < k /\ k <= i * cs + Len(res) THEN res[k - i * cs] ELSE value[k]]

\* A collection that returns while one chunk is still outstanding.
ReadyEarly(left) == left <= 1

\* starmap returns once no chunk is outstanding.
Ready(left) == left = 0

\* -------------------------------------------------------------------- Init
\* The cache file holds, for each fingerprint, nothing or a result some
\* earlier experiment (of any dtype) stored; no orchestrator has run yet.
Init ==
    /\ cacheFile \in [Fingerprints ->
                        {Absent} \cup {Stored(Evaluate(fp, dt)) : fp \in Fingerprints,
                                                                 dt \in Dtypes}]
    /\ \A fp \in Fingerprints : cacheFile[fp].st = "ok" => cacheFile[fp].val.fp = fp
    /\ lock = 0
    /\ procCounter = 1
    /\ runPc = "idle"
    /\ exp = [model_name |-> ModelName, dtype |-> 16,
              question_count |-> QuestionCount, qlist |-> <<>>]
    /\ path = "none"
    /\ probeMiss = 0
    /\ pool = {}
    /\ taskq = <<>>
    /\ wk = [p \in {} |-> NoWorker]
    /\ mapValue = <<>>
    /\ numberLeft = 0
    /\ success = TRUE
    /\ evalOut = <<>>
    /\ arrival = <<>>
    /\ delivered = <<>>
    /\ prCalls = 0
    /\ modelRuns = [fp \in Fingerprints |-> 0]
    /\ partialRead = FALSE
    /\ repeatOf = "none"
    /\ selfDict = {}
    /\ propLoads = NoLoads
    /\ taskSelf = {}
    /\ orchBinds = NoBinds
    /\ chunkSz = -1

\* ------------------------------------------------------------------- run()
\* Lines 78-85 up to the point where run() blocks in starmap.  With every
\* pair cached, process_result gets the probe's list at once (line 85);
\* otherwise a Pool of len(device_configs) processes is created and the whole
\* quantizer_list is queued in chunks of chunk_size.
run(e) ==
    /\ runPc \in {"idle", "done", "failed"}
    /\ exp' = e
    /\ repeatOf' = IF runPc = "done" /\ e = exp /\ path = "dispatch" THEN path ELSE "none"
    /\ LET results == is_all_cached(e, cacheFile)
           n == Len(e.qlist)
           cs == chunk_size(n)
           same == runPc \in {"done", "failed"} /\ e = exp
           probed == ProbeEffects(e, [dict |-> IF same THEN selfDict ELSE {},
                                      loads |-> IF same THEN propLoads ELSE NoLoads,
                                      cache |-> cacheFile,
                                      binds |-> IF same THEN orchBinds ELSE NoBinds], 1)
           loaded == AccessAll(probed, RunTouches)
       IN  /\ probeMiss' = results.miss
           /\ cacheFile' = probed.cache
           /\ orchBinds' = probed.binds
           /\ IF ~IsNone(results)
              THEN /\ path' = "cached"
                   /\ selfDict' = probed.dict
                   /\ propLoads' = probed.loads
                   /\ taskSelf' = {}
                   /\ chunkSz' = -1
                   /\ delivered' = results.results
                   /\ prCalls' = 1
                   /\ runPc' = "done"
                   /\ evalOut' = <<>>
                   /\ mapValue' = <<>>
                   /\ numberLeft' = 0
                   /\ UNCHANGED <<procCounter, pool, taskq, wk>>
              ELSE /\ path' = "dispatch"
                   /\ selfDict' = loaded.dict
                   /\ propLoads' = loaded.loads
                   /\ taskSelf' = TaskSelf(loaded.dict)
                   /\ chunkSz' = cs
                   /\ delivered' = <<>>
                   /\ prCalls' = 0
                   /\ runPc' = "collect"
                   /\ procCounter + NumDevices - 1 \in Procs
                   /\ pool' = PoolIdentities(procCounter)
                   /\ procCounter' = procCounter + NumDevices
                   /\ wk' = [p \in PoolIdentities(procCounter) |->
                               [NoWorker EXCEPT !.pc = "idle"]]
                   /\ taskq' = [j \in 1..NumChunks(n, cs) |-> j - 1]
                   /\ mapValue' = [k \in 1..n |-> NoResult]
                   /\ evalOut' = [k \in 1..n |-> NoResult]
                   /\ numberLeft' = NumChunks(n, cs)
    /\ success' = TRUE
    /\ arrival' = <<>>
    /\ modelRuns' = [fp \in Fingerprints |-> 0]
    /\ UNCHANGED <<lock, partialRead>>

\* The orchestrator program is started again in a new process: the process
\* counter starts over and the objects are new, the cache file stays.
NewProcess ==
    /\ runPc \in {"done", "failed"}
    /\ procCounter > 1
    /\ procCounter' = 1
    /\ selfDict' = {}
    /\ propLoads' = NoLoads
    /\ orchBinds' = NoBinds
    /\ UNCHANGED <<cacheFile, lock, runPc, exp, path, probeMiss, pool,
                   taskq, wk, mapValue, numberLeft, success, evalOut,
                   arrival, delivered, prCalls, modelRuns, partialRead, repeatOf,
                   taskSelf, chunkSz>>

\* ------------------------------------------------------- the pool workers
\* A worker that takes a task whatever it is doing.
WorkerFreeAlways(pc) == TRUE

\* The worker loop of the pool gets a task only when it has returned the
\* result of the one before.
WorkerFree(pc) == pc = "idle"

\* An idle worker takes the next chunk from the task queue.  The task holds
\* the pickled bound method self._run_single_evaluation, so the worker gets
\* its own copy of the experiment object with every chunk.
TakeChunk(w) ==
    /\ w \in pool
    /\ WorkerFree(wk[w].pc)
    /\ taskq # <<>>
    /\ taskq' = Tail(taskq)
    /\ wk' = [wk EXCEPT ![w].pc = "start",
                        ![w].chunk = Head(taskq),
                        ![w].pos = Head(taskq) * chunk_size(Len(exp.qlist)) + 1,
                        ![w].local = <<>>, ![w].binds = NoBinds]
    /\ UNCHANGED <<cacheFile, lock, procCounter, runPc, exp, path,
                   probeMiss, pool, mapValue, numberLeft, success, evalOut,
                   arrival, delivered, prCalls, modelRuns, partialRead, repeatOf, orchVars>>

\* A worker index that does not depend on the process.
WorkerIdShared(identity) == 0

\* Line 64: worker_id = current_process()._identity[0] - 1.
WorkerId(identity) == identity - 1

\* Lines 29-30: functools.cache keys the handle by the arguments of
\* model(self, worker_id); self is the chunk's own copy of the experiment.
ModelCacheKey(self, worker_id) == <<self, worker_id>>

\* The chunk of a worker raised: starmap keeps the first exception and counts
\* the chunk as finished.
ChunkRaises(w) ==
    /\ success' = FALSE
    /\ numberLeft' = numberLeft - 1
    /\ arrival' = Append(arrival, wk[w].chunk)
    /\ UNCHANGED <<mapValue, evalOut>>

\* The evaluation of w's current index returned r (line 76); after the last
\* index of the chunk the chunk's list goes back to starmap.
Returns(w, r, w2) ==
    LET n == Len(exp.qlist)
        cs == chunk_size(n)
        local == Append(wk[w].local, r)
        last == wk[w].pos = n \/ wk[w].pos = (wk[w].chunk + 1) * cs
    IN  /\ evalOut' = [evalOut EXCEPT ![wk[w].pos] = r]
        /\ IF last
           THEN /\ wk' = [w2 EXCEPT ![w].pc = "idle", ![w].local = <<>>, ![w].binds = NoBinds]
                /\ numberLeft' = numberLeft - 1
                /\ arrival' = Append(arrival, wk[w].chunk)
                /\ mapValue' = IF success
                               THEN SetChunk(mapValue, wk[w].chunk, cs, local)
                               ELSE mapValue
           ELSE /\ wk' = [w2 EXCEPT ![w].pc = "start", ![w].local = local,
                                    ![w].pos = wk[w].pos + 1]
                /\ UNCHANGED <<numberLeft, mapValue, arrival>>
        /\ UNCHANGED success

\* An evaluator built from the first pair of the list, whatever the index.
WorkerEvaluatorFirstPair(w) ==
    EvaluatorArgs(DeviceOf(WorkerId(w)), exp, exp.qlist[1])

\* The evaluator line 70 builds in worker w for its current index.
WorkerEvaluator(w) ==
    EvaluatorArgs(DeviceOf(WorkerId(w)), exp, exp.qlist[wk[w].pos])

\* Lines 64-70 in worker w: the memoized model handle of (self, worker_id)
\* is built unless the process has it, device_configs[worker_id] is used,
\* the two quantizers of the pair are bound, and self.questions is read from
\* the worker's copy of the experiment (loaded there if the copy lacks it).
WithHandle(w) ==
    LET worker_id == WorkerId(w)
        key == ModelCacheKey(wk[w].chunk, worker_id)
        copy == questions([dict |-> taskSelf, loads |-> NoLoads])
    IN  [wk EXCEPT ![w].devs = @ \cup {DeviceOf(worker_id)},
                   ![w].selves = @ \cup {key},
                   ![w].loads = IF key \in wk[w].selves THEN @ ELSE @ + 1,
                   ![w].binds = set_dtype_and_device(@, exp.qlist[wk[w].pos]),
                   ![w].loaded = @ \cup (copy.dict \ taskSelf)]

\* _run_single_evaluation, lines 62-71, for the worker's current index: the
\* worker index, the lookup of device_configs[worker_id] (an IndexError when
\* the index is past the table), the model handle, the rebinding of the two
\* quantizers, the evaluator, and cached_evaluate up to its result: the
\* record of the fingerprint is read while no writer holds the file lock; a
\* hit is returned (lines 72-76) without running the model, on a miss the
\* model is run over the question set and the result is left to be stored.
run_single_evaluation(w) ==
    /\ w \in pool
    /\ wk[w].pc = "start"
    /\ IF WorkerId(w) \notin 0..(NumDevices - 1)
       THEN /\ wk' = [wk EXCEPT ![w].pc = "idle", ![w].local = <<>>, ![w].binds = NoBinds]
            /\ ChunkRaises(w)
            /\ UNCHANGED <<modelRuns, partialRead>>
       ELSE /\ lock = 0
            /\ LET result == is_result_cached(WorkerEvaluator(w), cacheFile)
                   fp == Fingerprint(WorkerEvaluator(w))
               IN  /\ partialRead' = (partialRead \/ result.st = "partial")
                   /\ CASE result.st = "ok" ->
                              /\ Returns(w, result.val, WithHandle(w))
                              /\ UNCHANGED modelRuns
                        [] result.st = "absent" ->
                              /\ wk' = [WithHandle(w) EXCEPT
                                          ![w].pc = "put",
                                          ![w].res = Evaluate(fp, exp.dtype)]
                              /\ modelRuns' = [modelRuns EXCEPT
                                                 ![fp] = IF @ < 2 THEN @ + 1 ELSE @]
                              /\ UNCHANGED <<mapValue, numberLeft, success,
                                             evalOut, arrival>>
                        [] OTHER ->
                              /\ wk' = [WithHandle(w) EXCEPT
                                          ![w].pc = "idle", ![w].local = <<>>, ![w].binds = NoBinds]
                              /\ ChunkRaises(w)
                              /\ UNCHANGED modelRuns
    /\ UNCHANGED <<cacheFile, lock, procCounter, runPc, exp, path,
                   probeMiss, pool, taskq, delivered, prCalls, repeatOf, orchVars>>

\* The same lines when the model run of a miss raises in the worker (out of
\* memory, a fault of the model): nothing is stored and the chunk fails.
EvaluationFails(w) ==
    /\ w \in pool
    /\ wk[w].pc = "start"
    /\ WorkerId(w) \in 0..(NumDevices - 1)
    /\ lock = 0
    /\ is_result_cached(WorkerEvaluator(w), cacheFile).st = "absent"
    /\ wk' = [WithHandle(w) EXCEPT ![w].pc = "idle", ![w].local = <<>>, ![w].binds = NoBinds]
    /\ ChunkRaises(w)
    /\ UNCHANGED <<cacheFile, lock, procCounter, runPc, exp, path,
                   probeMiss, pool, taskq, delivered, prCalls, modelRuns,
                   partialRead, repeatOf, orchVars>>

\* A writer that starts to write without taking the file lock.
WriteBeginNoLock(w) ==
    /\ w \in pool
    /\ wk[w].pc = "put"
    /\ cacheFile' = [cacheFile EXCEPT ![Fingerprint(WorkerEvaluator(w))] = Partial]
    /\ wk' = [wk EXCEPT ![w].pc = "writing"]
    /\ UNCHANGED <<lock, procCounter, runPc, exp, path, probeMiss, pool,
                   taskq, mapValue, numberLeft, success, evalOut, arrival,
                   delivered, prCalls, modelRuns, partialRead, repeatOf, orchVars>>

\* cached_evaluate stores the result: the writer takes the file lock and
\* starts to write the record ...
WriteBegin(w) ==
    /\ w \in pool
    /\ wk[w].pc = "put"
    /\ lock = 0
    /\ lock' = w
    /\ cacheFile' = [cacheFile EXCEPT ![Fingerprint(WorkerEvaluator(w))] = Partial]
    /\ wk' = [wk EXCEPT ![w].pc = "writing"]
    /\ UNCHANGED <<procCounter, runPc, exp, path, probeMiss, pool, taskq,
                   mapValue, numberLeft, success, evalOut, arrival, delivered,
                   prCalls, modelRuns, partialRead, repeatOf, orchVars>>

\* ... and completes it, releases the lock and returns the result.
WriteEnd(w) ==
    /\ w \in pool
    /\ wk[w].pc = "writing"
    /\ lock' = IF lock = w THEN 0 ELSE lock
    /\ cacheFile' = [cacheFile EXCEPT
                       ![Fingerprint(WorkerEvaluator(w))] = Stored(wk[w].res)]
    /\ Returns(w, wk[w].res, [wk EXCEPT ![w].res = NoResult])
    /\ UNCHANGED <<procCounter, runPc, exp, path, probeMiss, pool, taskq,
                   delivered, prCalls, modelRuns, partialRead, repeatOf, orchVars>>

\* ---------------------------------------------------- run(): after starmap
\* A collection that hands back the list whether or not a chunk raised.
StarmapReturnsAlways(ok) == TRUE

\* MapResult.get(): the value is returned when every chunk succeeded, the
\* stored exception is raised otherwise.
StarmapReturns(ok) == ok

\* Lines 84-85: starmap returns the assembled list or raises the first
\* exception of a chunk; leaving the with block terminates the pool; only a
\* returned list reaches process_result.
Collect ==
    /\ runPc = "collect"
    /\ Ready(numberLeft)
    /\ pool' = {}
    /\ wk' = [p \in {} |-> NoWorker]
    /\ taskq' = <<>>
    /\ IF StarmapReturns(success)
       THEN /\ delivered' = mapValue
            /\ prCalls' = prCalls + 1
            /\ runPc' = "done"
       ELSE /\ runPc' = "failed"
            /\ UNCHANGED <<delivered, prCalls>>
    /\ UNCHANGED <<cacheFile, lock, procCounter, exp, path, probeMiss,
                   mapValue, numberLeft, success, evalOut, arrival, modelRuns,
                   partialRead, repeatOf, orchVars>>

Next ==
    \/ (runPc # "collect" /\ \E e \in Experiments : run(e))
    \/ NewProcess
    \/ \E w \in pool : TakeChunk(w)
    \/ \E w \in pool : run_single_evaluation(w)
    \/ \E w \in pool : EvaluationFails(w)
    \/ \E w \in pool : WriteBegin(w)
    \/ \E w \in pool : WriteEnd(w)
    \/ Collect

Spec == Init /\ [][Next]_vars

\* ================================================================= claims
\* The steps that are a call of run(): taken outside starmap, they enter it
\* or leave the process counter alone (NewProcess resets the counter).
RunStep == runPc # "collect" /\ (runPc' = "collect" \/ procCounter' = procCounter)

\* The fingerprint of the i-th pair of the current experiment's quantizer_list.
PairFp(i) == Fingerprint(EvaluatorArgs(CpuDevice, exp, exp.qlist[i]))

\* C1: on the dispatch path the list handed to process_result holds, at every
\* index i, the result the evaluation of the i-th pair returned, whichever
\* worker took which chunk and in whatever order the chunks came back; the
\* slots starmap has filled so far already are the ones of their own pairs.
C1_ResultsInSubmissionOrder ==
    /\ (runPc = "collect" /\ success) =>
          \A i \in 1..Len(mapValue) :
              mapValue[i] # NoResult =>
                  mapValue[i] = evalOut[i] /\ mapValue[i].fp = PairFp(i)
    /\ (runPc = "done" /\ path = "dispatch") =>
          /\ Len(delivered) = Len(exp.qlist)
          /\ \A i \in 1..Len(exp.qlist) :
                 /\ delivered[i] # NoResult
                 /\ delivered[i] = evalOut[i]
                 /\ delivered[i].fp = PairFp(i)

\* C1 witness: a dispatched run delivered three results of which the first
\* and the last belong to different pairs, and the last chunk came back
\* before the first one.
C1_Witness ==
    /\ runPc = "done"
    /\ path = "dispatch"
    /\ Len(exp.qlist) = 3
    /\ exp.qlist[1] # exp.qlist[3]
    /\ Len(arrival) = 2
    /\ arrival[1] > arrival[2]

\* A call of process_result on the dispatch path got one returned evaluation
\* for every pair of quantizer_list.
C2_FullDispatch ==
    (path = "dispatch" /\ prCalls > 0) =>
        /\ Len(delivered) = Len(exp.qlist)
        /\ \A i \in 1..Len(exp.qlist) :
              delivered[i] # NoResult /\ delivered[i] = evalOut[i]

\* C2: run() takes the cached branch exactly when the probe found every pair
\* of quantizer_list in the cache, and then hands over exactly the cached
\* records; when a pair is missing nothing reaches process_result at that
\* point and every index of quantizer_list is queued for the pool, and the
\* list a finished dispatch delivers holds the returned evaluation of every
\* pair.
C2_AllOrNothing ==
    [][/\ C2_FullDispatch'
       /\ RunStep =>
            LET n == Len(exp'.qlist)
                fpOf(i) == Fingerprint(EvaluatorArgs(CpuDevice, exp', exp'.qlist[i]))
                hit(i) == cacheFile[fpOf(i)].st = "ok"
            IN  /\ (path' = "cached") <=> (\A i \in 1..n : hit(i))
                /\ path' = "cached" =>
                      /\ prCalls' = 1
                      /\ delivered' = [i \in 1..n |-> cacheFile[fpOf(i)].val]
                /\ path' # "cached" =>
                      /\ path' = "dispatch"
                      /\ probeMiss' \in 1..n
                      /\ ~hit(probeMiss')
                      /\ \A i \in 1..(probeMiss' - 1) : hit(i)
                      /\ prCalls' = 0
                      /\ delivered' = <<>>
                      /\ UNION {ChunkItems(taskq'[j], chunk_size(n), n) :
                                  j \in 1..Len(taskq')} = 1..n
    ]_vars

\* C2 witness: the probe collected two hits before the third pair missed,
\* and the run went on to deliver a list from the pool.
C2_Witness ==
    /\ runPc = "done"
    /\ path = "dispatch"
    /\ probeMiss = 3
    /\ Len(delivered) = 3

\* C3: a run() that repeats the experiment of the run() that completed just
\* before it takes the cached branch: it ends at once with process_result
\* called on the very list of the first run, creates no pool (no process
\* identity is used up, no worker exists), builds no model handle, runs no
\* model and leaves the cache as it was.
C3_SecondRunCached ==
    [][(RunStep /\ runPc = "done" /\ exp' = exp) =>
          /\ path' = "cached"
          /\ runPc' = "done"
          /\ prCalls' = 1
          /\ delivered' = delivered
          /\ pool' = {}
          /\ procCounter' = procCounter
          /\ wk' = wk
          /\ modelRuns' = [fp \in Fingerprints |-> 0]
          /\ cacheFile' = cacheFile
    ]_vars

\* C3 witness: the run before dispatched a three-pair list to the pool and
\* completed, and the same experiment has been run again.
C3_Witness ==
    /\ repeatOf = "dispatch"
    /\ runPc = "done"
    /\ path = "cached"
    /\ Len(exp.qlist) = 3
    /\ exp.qlist[1] # exp.qlist[2]

\* C4: the model is run over the question set at most once per fingerprint.
C4_AtMostOncePerFingerprint ==
    \A fp \in Fingerprints : modelRuns[fp] <= 1

\* C5: a worker process builds the model handle at most once.
C5_OneHandlePerWorker ==
    \A w \in pool : wk[w].loads <= 1

\* C6: a live pool has len(device_configs) workers, each worker uses one and
\* the same entry of device_configs in all its evaluations, the entry exists,
\* and no two workers of the pool use the same entry.
C6_OneDevicePerWorker ==
    /\ (runPc = "collect") <=> (pool # {})
    /\ pool # {} => Cardinality(pool) = NumDevices
    /\ \A w \in pool :
          /\ Cardinality(wk[w].devs) <= 1
          /\ wk[w].devs \subseteq {DeviceOf(i) : i \in 0..(NumDevices - 1)}
    /\ \A w1, w2 \in pool : w1 # w2 => wk[w1].devs \cap wk[w2].devs = {}

\* C6 witness: two workers of the pool have evaluated, one of them is in its
\* second evaluation.
C6_Witness ==
    \E w1, w2 \in pool :
        /\ w1 # w2
        /\ wk[w1].devs # {}
        /\ wk[w2].devs # {}
        /\ Len(wk[w1].local) = 1
        /\ wk[w1].pc = "put"

\* C7: process_result is called exactly once by a run() that completes and
\* not at all by one that has not; the list it gets is as long as
\* quantizer_list; on the dispatch path the call comes when no chunk is
\* outstanding or queued and every index has been evaluated.
C7_ProcessResultOnce ==
    /\ prCalls = (IF runPc = "done" THEN 1 ELSE 0)
    /\ runPc = "done" => Len(delivered) = Len(exp.qlist)
    /\ (runPc = "done" /\ path = "dispatch") =>
          /\ numberLeft = 0
          /\ taskq = <<>>
          /\ \A i \in 1..Len(exp.qlist) : evalOut[i] # NoResult

\* C7 witness: a dispatched run of three pairs on which the model was run has
\* completed and called process_result.
C7_Witness ==
    /\ runPc = "done"
    /\ path = "dispatch"
    /\ prCalls = 1
    /\ Len(delivered) = 3
    /\ \E fp \in Fingerprints : modelRuns[fp] > 0

\* C8: once an evaluation has raised in a worker the run cannot complete:
\* process_result is not called and no list is reported, and a run fails
\* only for that reason.
C8_FailureAborts ==
    /\ ~success => (runPc \in {"collect", "failed"} /\ prCalls = 0 /\ delivered = <<>>)
    /\ runPc = "failed" => ~success

\* C8 witness: a run failed although another evaluation of it had returned
\* its result.
C8_Witness ==
    /\ runPc = "failed"
    /\ \E i \in 1..Len(evalOut) : evalOut[i] # NoResult

\* C9: at most one worker is writing the cache file at a time, no reader has
\* been given a record that was being written, no such record is left when no
\* writer is at work (so none is there for a later probe), and every record
\* in the file is the complete result of its own fingerprint.
C9_ExclusiveWrites ==
    /\ Cardinality({w \in pool : wk[w].pc = "writing"}) <= 1
    /\ ~partialRead
    /\ (\A w \in pool : wk[w].pc # "writing") =>
          \A fp \in Fingerprints : cacheFile[fp].st # "partial"
    /\ runPc # "collect" => \A fp \in Fingerprints : cacheFile[fp].st # "partial"
    /\ \A fp \in Fingerprints :
          cacheFile[fp].st = "ok" =>
              cacheFile[fp].val \in Results /\ cacheFile[fp].val.fp = fp

\* C9 witness: two workers missed the cache for the same fingerprint and ran
\* the model; one is writing the record, the other waits to write it.
C9_Witness ==
    \E w1, w2 \in pool :
        /\ w1 # w2
        /\ wk[w1].pc = "writing"
        /\ wk[w2].pc = "put"
        /\ Fingerprint(WorkerEvaluator(w1)) = Fingerprint(WorkerEvaluator(w2))

\* C10: every result a completed run reports for a pair is the result that
\* experiment computes for the pair's fingerprint.
C10_FingerprintDeterminesResult ==
    runPc = "done" =>
        \A i \in 1..Len(exp.qlist) :
            delivered[i] = Evaluate(PairFp(i), exp.dtype)

\* C11: a model handle is built only in a pool process and stays there: the
\* orchestrator process builds none (not in the probe, not in run), the
\* experiment it holds and the experiment pickled with the tasks carry none,
\* every handle a worker built is in that worker's own memo, and what comes
\* back from the workers and reaches process_result are evaluation results
\* only.
C11_HandleStaysInWorker ==
    /\ propLoads["model"] = 0
    /\ "model" \notin selfDict
    /\ "model" \notin taskSelf
    /\ \A w \in pool : wk[w].loads = Cardinality(wk[w].selves)
    /\ \A i \in 1..Len(mapValue) : mapValue[i] \in Results \cup {NoResult}
    /\ \A i \in 1..Len(delivered) : delivered[i] \in Results

\* C11 witness: a worker built a handle for tasks that came with the loaded
\* members of the experiment, and its chunk's results are back with the
\* orchestrator.
C11_Witness ==
    /\ runPc = "collect"
    /\ taskSelf = {"tokenizer", "questions"}
    /\ \E w \in pool : wk[w].loads > 0 /\ wk[w].pc = "idle"
    /\ \E i \in 1..Len(mapValue) : mapValue[i] # NoResult

\* C12: in a worker, set_dtype_and_device is called exactly once on each
\* quantizer object of the chunk it is working on, before the first
\* evaluation that uses the object and never again.
C12_ReboundOncePerQuantizer ==
    \A w \in pool :
        /\ \A o \in QObjs : wk[w].binds[o] <= 1
        /\ wk[w].pc \in {"put", "writing"} =>
              /\ wk[w].binds[<<"key", exp.qlist[wk[w].pos][1]>>] = 1
              /\ wk[w].binds[<<"value", exp.qlist[wk[w].pos][2]>>] = 1

\* C13: the orchestrator process loads the tokenizer and the question set at
\* most once for its experiment object; while a pool is at work it has
\* loaded each exactly once, both were in the experiment object when the
\* tasks were pickled for the pool (so they were loaded before), they stay in
\* the orchestrator's object, and no worker has loaded either for its copy.
C13_LoadedOnceByOrchestrator ==
    /\ \A m \in {"tokenizer", "questions"} : propLoads[m] <= 1
    /\ runPc = "collect" =>
          /\ propLoads["tokenizer"] = 1
          /\ propLoads["questions"] = 1
          /\ selfDict = {"tokenizer", "questions"}
          /\ taskSelf = {"tokenizer", "questions"}
          /\ \A w \in pool : wk[w].loaded = {}

\* C13 witness: a worker of the pool has finished one evaluation, which read
\* the questions from its copy of the experiment, and is in its second.
C13_Witness ==
    /\ runPc = "collect"
    /\ \E w \in pool :
          /\ wk[w].devs # {}
          /\ Len(wk[w].local) = 1
          /\ wk[w].pc = "start"

\* The workers that have an evaluation in progress, and the evaluations in
\* progress on device dv.
Evaluating == {w \in pool : wk[w].pc \in {"start", "put", "writing"}}
OnDevice(dv) ==
    {w \in Evaluating : WorkerId(w) \in 0..(NumDevices - 1) /\ DeviceOf(WorkerId(w)) = dv}

\* C14: a worker works on one chunk and, in it, on one index at a time: the
\* indices of its chunk before the current one have returned, those after it
\* have not been started; every chunk taken from the queue is either back
\* with the orchestrator or held by exactly one worker; and no device has
\* more than one evaluation in progress.
C14_OneEvaluationAtATime ==
    LET n == Len(exp.qlist)
        cs == chunk_size(n)
        queued == {taskq[j] : j \in 1..Len(taskq)}
        back == {arrival[j] : j \in 1..Len(arrival)}
        holders(c) == {w \in Evaluating : wk[w].chunk = c}
    IN  runPc = "collect" =>
          /\ \A w \in Evaluating :
                /\ wk[w].pos \in ChunkItems(wk[w].chunk, cs, n)
                /\ Len(wk[w].local) = wk[w].pos - wk[w].chunk * cs - 1
                /\ \A k \in ChunkItems(wk[w].chunk, cs, n) :
                      /\ k < wk[w].pos => evalOut[k] # NoResult
                      /\ k >= wk[w].pos => evalOut[k] = NoResult
          /\ \A c \in 0..(NumChunks(n, cs) - 1) :
                \/ c \in queued /\ c \notin back /\ holders(c) = {}
                \/ c \notin queued /\ c \in back /\ holders(c) = {}
                \/ c \notin queued /\ c \notin back /\ Cardinality(holders(c)) = 1
          /\ \A dv \in {DeviceOf(i) : i \in 0..(NumDevices - 1)} :
                Cardinality(OnDevice(dv)) <= 1

\* C14 witness: both devices are busy, one with the second evaluation of its
\* worker's chunk.
C14_Witness ==
    \E w1, w2 \in pool :
        /\ w1 # w2
        /\ wk[w1].pc = "put"
        /\ wk[w2].pc = "put"
        /\ Len(wk[w1].local) = 1

\* C15: a dispatched quantizer_list has n >= 1 pairs; the chunk size run()
\* computed is ceil(n / len(device_configs)); the chunks cut with it are
\* non-empty runs of consecutive indices, in list order, every index is in
\* exactly one of them, all but the last have chunk-size indices, there are
\* at most len(device_configs) of them, and they are the chunks the pool was
\* given.
C15_ContiguousChunks ==
    (path = "dispatch" /\ runPc # "idle") =>
        LET n == Len(exp.qlist)
            cs == chunkSz
            nc == NumChunks(n, cs)
            items(c) == ChunkItems(c, cs, n)
        IN  /\ n >= 1
            /\ cs >= 1
            /\ cs * NumDevices >= n
            /\ (cs - 1) * NumDevices < n
            /\ nc \in 1..NumDevices
            /\ \A k \in 1..n : Cardinality({c \in 0..(nc - 1) : k \in items(c)}) = 1
            /\ \A c \in 0..(nc - 1) :
                  /\ items(c) # {}
                  /\ \A a, b \in items(c) : \A k \in a..b : k \in items(c)
                  /\ c < nc - 1 => Cardinality(items(c)) = cs
                  /\ \A c2 \in 0..(nc - 1) :
                        c < c2 => \A a \in items(c), b \in items(c2) : a < b
            /\ runPc = "collect" =>
                  {taskq[j] : j \in 1..Len(taskq)}
                     \cup {arrival[j] : j \in 1..Len(arrival)}
                     \cup {wk[w].chunk : w \in Evaluating} = 0..(nc - 1)

\* C15 witness: three pairs on two devices were cut into a chunk of two and
\* a chunk of one, and a worker is at the pair of the short chunk.
C15_Witness ==
    /\ runPc = "collect"
    /\ Len(exp.qlist) = 3
    /\ chunkSz = 2
    /\ \E w \in pool : wk[w].pc = "start" /\ wk[w].chunk = 1 /\ wk[w].pos = 3

\* C16: the worker index of every worker that has an evaluation to run,
\* its process identity minus one, is an index of device_configs.
C16_WorkerIdValid ==
    \A w \in Evaluating : WorkerId(w) \in 0..(NumDevices - 1)

\* C17: the probe of a run() writes nothing: the step that probes leaves the
\* cache file and its lock as they were, calls set_dtype_and_device on no
\* quantizer of the orchestrator, runs no model, and when the probe's answer
\* is the list of cached results no pool process exists afterwards and no
\* process identity was used.
C17_ProbeReadOnly ==
    [][RunStep =>
          /\ cacheFile' = cacheFile
          /\ lock' = lock
          /\ orchBinds' = NoBinds
          /\ modelRuns' = [fp \in Fingerprints |-> 0]
          /\ path' = "cached" =>
                /\ pool' = {}
                /\ wk' = wk
                /\ procCounter' = procCounter
    ]_vars

\* C17 witness: a probe found the first two pairs cached and the third
\* missing; the pool it led to has not started on any chunk yet.
C17_Witness ==
    /\ runPc = "collect"
    /\ probeMiss = 3
    /\ Len(taskq) = NumChunks(3, chunk_size(3))
    /\ \E fp \in Fingerprints : cacheFile[fp].st = "absent"

\* C18: a run() on an empty quantizer_list gets the empty list, not None,
\* from _is_all_cached whatever the cache holds, and ends at once on the
\* cached branch: process_result is called once with the empty list, no pool
\* is created (no process identity is used, no task is queued) and no chunk
\* size is computed.
C18_EmptyListIsCached ==
    [][(RunStep /\ exp'.qlist = <<>>) =>
          /\ ~IsNone(is_all_cached(exp', cacheFile))
          /\ is_all_cached(exp', cacheFile).results = <<>>
          /\ path' = "cached"
          /\ runPc' = "done"
          /\ prCalls' = 1
          /\ delivered' = <<>>
          /\ pool' = {}
          /\ taskq' = <<>>
          /\ procCounter' = procCounter
          /\ chunkSz' = -1
    ]_vars

\* C18 witness: a run on the empty list has completed in a process that had
\* dispatched before, with a cache that lacks a record.
C18_Witness ==
    /\ runPc = "done"
    /\ exp.qlist = <<>>
    /\ path = "cached"
    /\ prCalls = 1
    /\ procCounter > 1
    /\ \E fp \in Fingerprints : cacheFile[fp].st = "absent"
====
